---- MODULE Spec2Model ----
(***************************************************************************)
(* Model of statistical_analysis.py: softmax over matching scores,         *)
(* Cohen's h between two proportions, and main(), which prints the five    *)
(* report sections from the module-level data tables.                      *)
(*                                                                         *)
(* Floating point values are modelled as                                   *)
(*   [k |-> "fin", n, d]  the finite value n/d (d > 0),                    *)
(*   [k |-> "inf"], [k |-> "ninf"], [k |-> "nan"]  the IEEE specials.      *)
(* Finite arithmetic is exact; what is modelled of the double format is    *)
(* its range (exp overflows to inf, underflows to 0) and the propagation   *)
(* of inf and nan.  Angles are carried in degrees, so pi is 180.           *)
(* A Python dict is a sequence of [lang, value] records with distinct      *)
(* lang fields, in insertion order.                                        *)
(***************************************************************************)
EXTENDS Integers, Sequences, FiniteSets, TLC

VARIABLES
    spanish_greek_scores,   \* system -> dict lang -> score
    greek_spanish_scores,   \* system -> dict lang -> score
    bias_errors,            \* direction -> system -> error count
    total_sentences,        \* [per_direction, combined]
    pc,                     \* position of main(), or of the function call
    idx,                    \* index of the loop main() is in
    all_scores,             \* main()'s local dict of combined scores
    out,                    \* what has been printed so far
    err,                    \* the exception that ended the run, or "none"
    arg,                    \* arguments of the function call under test
    ret                     \* its return value

vars == <<spanish_greek_scores, greek_spanish_scores, bias_errors,
          total_sentences, pc, idx, all_scores, out, err, arg, ret>>

dataset == <<spanish_greek_scores, greek_spanish_scores, bias_errors,
             total_sentences>>

----------------------------------------------------------------------------
\* Bounds of the model.

\* Scores of the call under test range over 0..MaxCount.
MaxCount == 2
\* Dicts of the call under test hold at most MaxLen entries.
MaxLen == 2
\* The tables of main() are cut to their first MaxLabels entries, or less.
MaxLabels == 6
\* The scores of main()'s tables are scaled from 0..56 down to 0..ScoreLevels.
ScoreLevels == 6
\* Proportions of the call under test are multiples of 1/PDen ...
PDen == 4
\* ... from -POver/PDen to 1 + POver/PDen.
POver == 2
\* Trials per direction of the bias tables drawn as inputs: 1..MaxTrials.
MaxTrials == 1

----------------------------------------------------------------------------
\* Floating point.

Fin(n, d) == [k |-> "fin", n |-> n, d |-> d]
Inf == [k |-> "inf"]
NegInf == [k |-> "ninf"]
NaN == [k |-> "nan"]
Zero == Fin(0, 1)

IsFin(x) == x.k = "fin"

RECURSIVE Gcd(_, _)
Gcd(a, b) == IF b = 0 THEN a ELSE Gcd(b, a % b)

Abs(a) == IF a < 0 THEN -a ELSE a

\* n/d with d # 0, in lowest terms with a positive denominator.
Norm(n, d) ==
    LET g == Gcd(Abs(n), Abs(d))
        s == IF d < 0 THEN -1 ELSE 1
    IN  Fin(s * (n \div g), s * (d \div g))

\* a < b, a = b on finite values (cross-multiplied over the common factor).
FinLess(a, b) ==
    LET g == Gcd(a.d, b.d)
    IN  a.n * (b.d \div g) < b.n * (a.d \div g)

FinEq(a, b) ==
    LET g == Gcd(a.d, b.d)
    IN  a.n * (b.d \div g) = b.n * (a.d \div g)

\* Python's and numpy's a < b on floats: false when either side is nan.
FloatLess(a, b) ==
    CASE a.k = "nan" \/ b.k = "nan" -> FALSE
      [] a.k = "ninf" -> b.k # "ninf"
      [] a.k = "inf" -> FALSE
      [] b.k = "inf" -> TRUE
      [] b.k = "ninf" -> FALSE
      [] OTHER -> FinLess(a, b)

FloatEq(a, b) ==
    CASE a.k = "nan" \/ b.k = "nan" -> FALSE
      [] a.k = "fin" /\ b.k = "fin" -> FinEq(a, b)
      [] OTHER -> a.k = b.k

Sign(x) ==
    CASE x.k = "inf" -> 1
      [] x.k = "ninf" -> -1
      [] x.k = "fin" -> IF x.n > 0 THEN 1 ELSE IF x.n < 0 THEN -1 ELSE 0

\* numpy's true division a / b: a zero divisor gives inf or nan, never an
\* exception.
NpDivide(a, b) ==
    CASE a.k = "nan" \/ b.k = "nan" -> NaN
      [] a.k # "fin" /\ b.k # "fin" -> NaN
      [] a.k # "fin" ->
            IF Sign(a) * (IF b.n < 0 THEN -1 ELSE 1) > 0 THEN Inf ELSE NegInf
      [] b.k # "fin" -> Zero
      [] b.n = 0 ->
            IF a.n = 0 THEN NaN ELSE IF a.n > 0 THEN Inf ELSE NegInf
      [] OTHER ->
            LET g == Gcd(a.d, b.d)
            IN  Norm(a.n * (b.d \div g), (a.d \div g) * b.n)

\* a + b.
FloatAdd(a, b) ==
    CASE a.k = "nan" \/ b.k = "nan" -> NaN
      [] a.k = "inf" -> IF b.k = "ninf" THEN NaN ELSE Inf
      [] a.k = "ninf" -> IF b.k = "inf" THEN NaN ELSE NegInf
      [] b.k # "fin" -> b
      [] OTHER ->
            LET g == Gcd(a.d, b.d)
            IN  Norm(a.n * (b.d \div g) + b.n * (a.d \div g),
                     (a.d \div g) * b.d)

FloatNeg(a) ==
    CASE a.k = "nan" -> NaN
      [] a.k = "inf" -> NegInf
      [] a.k = "ninf" -> Inf
      [] OTHER -> Fin(-a.n, a.d)

FloatSub(a, b) == FloatAdd(a, FloatNeg(b))

\* 2 * a.
FloatTwice(a) == IF IsFin(a) THEN Norm(2 * a.n, a.d) ELSE a

\* exp(k/2) in units of 1/ExpScale, for k = -16..16.
ExpScale == 10000
ExpTab ==
    <<3, 6, 9, 15, 25, 41, 67, 111, 183, 302, 498, 821, 1353, 2231, 3679,
      6065, 10000, 16487, 27183, 44817, 73891, 121825, 200855, 331155,
      545982, 900171, 1484132, 2446919, 4034288, 6651416, 10966332,
      18080424, 29809580>>

\* A double's exp overflows to inf above 709.782... and is 0 below
\* -745.133...; both in thousandths.
ExpOverflow == 709782
ExpUnderflow == -745133

\* numpy.exp.  A finite argument within the double's range is a multiple of
\* 1/2 in this model.
NpExp(x) ==
    CASE x.k = "nan" -> NaN
      [] x.k = "inf" -> Inf
      [] x.k = "ninf" -> Zero
      [] x.n * 1000 > ExpOverflow * x.d -> Inf
      [] x.n * 1000 < ExpUnderflow * x.d -> Zero
      [] OTHER -> Fin(ExpTab[((2 * x.n) \div x.d) + 17], ExpScale)

\* numpy.sum of a sequence of floats; 0.0 for the empty one.
RECURSIVE NpSum(_)
NpSum(xs) ==
    IF xs = <<>> THEN Zero
    ELSE FloatAdd(NpSum(SubSeq(xs, 1, Len(xs) - 1)), xs[Len(xs)])

\* floor(sqrt(v)) for v >= 0, by bisection on lo..hi.
RECURSIVE ISqrtIn(_, _, _)
ISqrtIn(v, lo, hi) ==
    IF lo = hi THEN lo
    ELSE LET mid == (lo + hi + 1) \div 2
         IN  IF mid * mid <= v THEN ISqrtIn(v, mid, hi)
             ELSE ISqrtIn(v, lo, mid - 1)

\* Square roots are carried in units of 1/SqrtScale.
SqrtScale == 1000

\* numpy.sqrt: nan (with a warning, no exception) below 0.
NpSqrt(x) ==
    CASE x.k = "nan" -> NaN
      [] x.k = "inf" -> Inf
      [] x.k = "ninf" -> NaN
      [] x.n < 0 -> NaN
      [] OTHER ->
            Fin(ISqrtIn((x.n * SqrtScale * SqrtScale) \div x.d, 0,
                        40 * SqrtScale),
                SqrtScale)

\* sin of 0..90 degrees in units of 1/SqrtScale.
SinTab ==
    <<0, 17, 35, 52, 70, 87, 105, 122, 139, 156, 174, 191, 208, 225, 242,
      259, 276, 292, 309, 326, 342, 358, 375, 391, 407, 423, 438, 454, 469,
      485, 500, 515, 530, 545, 559, 574, 588, 602, 616, 629, 643, 656, 669,
      682, 695, 707, 719, 731, 743, 755, 766, 777, 788, 799, 809, 819, 829,
      839, 848, 857, 866, 875, 883, 891, 899, 906, 914, 921, 927, 934, 940,
      946, 951, 956, 961, 966, 970, 974, 978, 982, 985, 988, 990, 993, 995,
      996, 998, 999, 999, 1000, 1000>>

\* pi, in degrees.
Pi == 180

\* The largest angle in lo..hi degrees whose sine is at most v/SqrtScale.
RECURSIVE ArcsinIn(_, _, _)
ArcsinIn(v, lo, hi) ==
    IF lo = hi THEN lo
    ELSE LET mid == (lo + hi + 1) \div 2
         IN  IF SinTab[mid + 1] <= v THEN ArcsinIn(v, mid, hi)
             ELSE ArcsinIn(v, lo, mid - 1)

\* numpy.arcsin, in degrees: nan (with a warning, no exception) outside
\* [-1, 1].
NpArcsin(x) ==
    CASE x.k # "fin" -> NaN
      [] Abs(x.n) > x.d -> NaN
      [] OTHER ->
            LET v == (Abs(x.n) * SqrtScale) \div x.d
                a == ArcsinIn(v, 0, Pi \div 2)
            IN  Fin(IF x.n < 0 THEN -a ELSE a, 1)

----------------------------------------------------------------------------
\* Dicts.

Min(a, b) == IF a < b THEN a ELSE b

Keys(dict) == {dict[i].lang : i \in DOMAIN dict}

HasKey(dict, lang) == \E i \in DOMAIN dict : dict[i].lang = lang

IndexOf(dict, lang) == CHOOSE i \in DOMAIN dict : dict[i].lang = lang

\* dict.get(lang, 0) on a dict of scores.
GetScore(dict, lang) ==
    IF HasKey(dict, lang) THEN dict[IndexOf(dict, lang)].score ELSE 0

\* dict[lang] = score: in place when the key exists, appended when not.
SetScore(dict, lang, score) ==
    IF HasKey(dict, lang)
    THEN [dict EXCEPT ![IndexOf(dict, lang)].score = score]
    ELSE Append(dict, [lang |-> lang, score |-> score])

----------------------------------------------------------------------------
\* The functions.

\* softmax(scores_dict, temperature): no argument is checked, no exception
\* is raised; the result has the keys of scores_dict in their order.
softmax(scores_dict, temperature) ==
    LET scores == [i \in DOMAIN scores_dict |-> Fin(scores_dict[i].score, 1)]
        exp_scores ==
            [i \in DOMAIN scores |-> NpExp(NpDivide(scores[i], temperature))]
        total == NpSum(exp_scores)
        probs == [i \in DOMAIN scores |-> NpDivide(exp_scores[i], total)]
    IN  [i \in DOMAIN scores_dict |->
            [lang |-> scores_dict[i].lang, prob |-> probs[i]]]

\* The default temperature=1.0.
DefaultTemperature == Fin(1, 1)

\* The subtraction of cohens_h with its operands exchanged.
cohens_h_swapped(p1, p2) ==
    FloatTwice(FloatSub(NpArcsin(NpSqrt(p2)), NpArcsin(NpSqrt(p1))))

\* cohens_h(p1, p2) = 2 * (arcsin(sqrt(p1)) - arcsin(sqrt(p2))): no argument
\* is checked, no exception is raised.
cohens_h(p1, p2) ==
    FloatTwice(FloatSub(NpArcsin(NpSqrt(p1)), NpArcsin(NpSqrt(p2))))

\* Python's a / b never raises (what numpy's scalars do).
NoZeroDivision(b) == FALSE

\* Python's a / b on int or float raises ZeroDivisionError when b is zero.
ZeroDivision(b) == IsFin(b) /\ b.n = 0

\* Python's a / b when it does not raise.
PyDivide(a, b) == NpDivide(a, b)

\* sorted(probs.items(), key=lambda x: x[1]) without reverse=True.
RECURSIVE SortedAscending(_)
SortedAscending(items) ==
    IF items = <<>> THEN <<>>
    ELSE LET rest == SortedAscending(SubSeq(items, 1, Len(items) - 1))
             e == items[Len(items)]
             after == {i \in DOMAIN rest : FloatLess(e.prob, rest[i].prob)}
             at == IF after = {} THEN Len(rest) + 1
                   ELSE CHOOSE i \in after : \A j \in after : i <= j
         IN  SubSeq(rest, 1, at - 1) \o <<e>> \o SubSeq(rest, at, Len(rest))

\* sorted(probs.items(), key=lambda x: x[1], reverse=True): a stable sort,
\* so items of equal probability keep the order they have in the dict.
RECURSIVE SortedByProb(_)
SortedByProb(items) ==
    IF items = <<>> THEN <<>>
    ELSE LET rest == SortedByProb(SubSeq(items, 1, Len(items) - 1))
             e == items[Len(items)]
             after == {i \in DOMAIN rest : FloatLess(rest[i].prob, e.prob)}
             at == IF after = {} THEN Len(rest) + 1
                   ELSE CHOOSE i \in after : \A j \in after : i <= j
         IN  SubSeq(rest, 1, at - 1) \o <<e>> \o SubSeq(rest, at, Len(rest))

\* The slice [:5].
TopN == 5
Top(items) == SubSeq(items, 1, Min(TopN, Len(items)))

\* The two loops of main() that add a system's scores of both directions to
\* a dict, with the assignment overwriting the entry instead of adding to it.
RECURSIVE AddScoresOverwriting(_, _)
AddScoresOverwriting(acc, scores) ==
    IF scores = <<>> THEN acc
    ELSE LET e == scores[1]
         IN  AddScoresOverwriting(SetScore(acc, e.lang, e.score), Tail(scores))

\* for lang, score in scores.items():
\*     all_scores[lang] = all_scores.get(lang, 0) + score
RECURSIVE AddScores(_, _)
AddScores(acc, scores) ==
    IF scores = <<>> THEN acc
    ELSE LET e == scores[1]
         IN  AddScores(SetScore(acc, e.lang, GetScore(acc, e.lang) + e.score),
                       Tail(scores))

----------------------------------------------------------------------------
\* The data tables.

E(lang, score) == [lang |-> lang, score |-> score]

Systems == <<"Google Translate", "DeepL Classic", "DeepL Next Gen">>
BiasSystems == <<"Google", "DeepL Classic", "DeepL Next Gen">>
ScoreDirections == <<"Spanish->Greek", "Greek->Spanish">>
BiasDirections == <<"Spanish->Greek", "Greek->Spanish", "Combined">>

SpanishGreekSource ==
    [s \in {Systems[i] : i \in DOMAIN Systems} |->
        CASE s = "Google Translate" ->
                <<E("English", 29), E("German", 13), E("Swedish", 20),
                  E("Turkish", 19), E("Chinese", 18), E("Swahili", 18),
                  E("Hungarian", 17), E("Italian", 13), E("French", 14),
                  E("Polish", 13), E("Arabic", 13), E("Hebrew", 13),
                  E("Hindi", 13)>>
          [] s = "DeepL Classic" ->
                <<E("English", 22), E("German", 13), E("Swedish", 18),
                  E("Turkish", 18), E("Chinese", 18), E("Swahili", 18),
                  E("Hungarian", 17), E("French", 16), E("Polish", 13),
                  E("Italian", 12), E("Arabic", 12), E("Hebrew", 12),
                  E("Hindi", 12)>>
          [] s = "DeepL Next Gen" ->
                <<E("Polish", 24), E("Italian", 23), E("Arabic", 24),
                  E("Hebrew", 24), E("Hindi", 24), E("German", 11),
                  E("French", 18), E("Swedish", 11), E("English", 10),
                  E("Turkish", 8), E("Hungarian", 8), E("Chinese", 8),
                  E("Swahili", 8)>>]

GreekSpanishSource ==
    [s \in {Systems[i] : i \in DOMAIN Systems} |->
        CASE s = "Google Translate" ->
                <<E("English", 28), E("Turkish", 24), E("Swedish", 23),
                  E("Russian", 21), E("Hungarian", 19), E("Swahili", 19),
                  E("Japanese", 18), E("Chinese", 18), E("Albanian", 16),
                  E("Arabic", 15), E("Hindi", 14), E("Hebrew", 14),
                  E("German", 13), E("French", 12), E("Polish", 12)>>
          [] s = "DeepL Classic" ->
                <<E("English", 20), E("Swedish", 17), E("Turkish", 17),
                  E("Chinese", 17), E("Japanese", 16), E("Swahili", 15),
                  E("Hungarian", 15), E("Russian", 15), E("Albanian", 14),
                  E("Hindi", 13), E("German", 12), E("Polish", 12),
                  E("Arabic", 12), E("French", 11), E("Italian", 11)>>
          [] s = "DeepL Next Gen" ->
                <<E("Hebrew", 25), E("Italian", 24), E("Arabic", 24),
                  E("French", 23), E("Polish", 22), E("Albanian", 21),
                  E("German", 20), E("Hindi", 19), E("Chinese", 18),
                  E("Russian", 14), E("Japanese", 14), E("Turkish", 13),
                  E("Hungarian", 13), E("Swedish", 12), E("Swahili", 12)>>]

\* The bias table with one of its 'Combined' counts mistyped.
BiasErrorsMistyped ==
    "Spanish->Greek" :>
        ("Google" :> 45 @@ "DeepL Classic" :> 42 @@ "DeepL Next Gen" :> 5)
    @@ "Greek->Spanish" :>
        ("Google" :> 40 @@ "DeepL Classic" :> 37 @@ "DeepL Next Gen" :> 3)
    @@ "Combined" :>
        ("Google" :> 85 @@ "DeepL Classic" :> 97 @@ "DeepL Next Gen" :> 8)

BiasErrorsSource ==
    "Spanish->Greek" :>
        ("Google" :> 45 @@ "DeepL Classic" :> 42 @@ "DeepL Next Gen" :> 5)
    @@ "Greek->Spanish" :>
        ("Google" :> 40 @@ "DeepL Classic" :> 37 @@ "DeepL Next Gen" :> 3)
    @@ "Combined" :>
        ("Google" :> 85 @@ "DeepL Classic" :> 79 @@ "DeepL Next Gen" :> 8)

TotalSentencesSource == [per_direction |-> 56, combined |-> 112]

\* A table of the source with its scores, which are counts out of the
\* trials per direction, scaled down to 0..ScoreLevels.
Scaled(table) ==
    [i \in DOMAIN table |->
        E(table[i].lang,
          (table[i].score * ScoreLevels) \div TotalSentencesSource.per_direction)]

\* The first n entries of a table.
Cut(table, n) == SubSeq(table, 1, Min(n, Len(table)))

\* The lengths a table of the source is cut to.
CutLengths(table) == {2, MaxLabels, Len(table)}

\* The tables main() is run on: for each system, a cut of its scaled table.
ScoreTables(source) ==
    {t \in [DOMAIN source -> UNION {{Cut(Scaled(source[s]), n) :
                                        n \in CutLengths(source[s])} :
                                    s \in DOMAIN source}] :
        \A s \in DOMAIN source :
            \E n \in CutLengths(source[s]) : t[s] = Cut(Scaled(source[s]), n)}

----------------------------------------------------------------------------
\* main().

None == [k |-> "none"]

\* One printed item: the section it belongs to (0 for the banners), what it
\* is, what it is about, and the values it shows.
Entry(sec, kind, key, val) ==
    [sec |-> sec, kind |-> kind, key |-> key, val |-> val]

Header(sec) == Entry(sec, "header", "", None)

\* What main() prints of a dict of scores: the five most probable languages
\* and, when it is a key, English.
DistReport(scores) ==
    LET probs == softmax(scores, DefaultTemperature)
        sorted_probs == SortedByProb(probs)
    IN  [top |-> Top(sorted_probs),
         matches |-> [i \in DOMAIN Top(sorted_probs) |->
                         scores[IndexOf(scores, sorted_probs[i].lang)].score],
         english |-> IF HasKey(probs, "English")
                     THEN <<probs[IndexOf(probs, "English")].prob>>
                     ELSE <<>>]

\* Lines 120-126: the banner and the header of section 1.
Start ==
    /\ pc = "start"
    /\ out' = out \o <<Entry(0, "banner", "", None), Header(1)>>
    /\ pc' = "s1"
    /\ idx' = 1
    /\ UNCHANGED <<dataset, all_scores, err, arg, ret>>

\* Lines 128-146: one system of one direction.
Section1Step ==
    /\ pc = "s1"
    /\ LET d == ((idx - 1) \div Len(Systems)) + 1
           i == ((idx - 1) % Len(Systems)) + 1
           direction_scores == IF d = 1 THEN spanish_greek_scores
                               ELSE greek_spanish_scores
           system == Systems[i]
           scores == direction_scores[system]
       IN  out' = out
                  \o (IF i = 1
                      THEN <<Entry(1, "direction", ScoreDirections[d], None)>>
                      ELSE <<>>)
                  \o <<Entry(1, "dist", <<ScoreDirections[d], system>>,
                             DistReport(scores))>>
    /\ IF idx = Len(ScoreDirections) * Len(Systems)
       THEN pc' = "s2" /\ idx' = 1
       ELSE pc' = pc /\ idx' = idx + 1
    /\ UNCHANGED <<dataset, all_scores, err, arg, ret>>

\* Lines 159-167: the scores of both directions, added into a new dict.
CombinedScores(system) ==
    AddScores(AddScores(<<>>, spanish_greek_scores[system]),
              greek_spanish_scores[system])

\* Lines 149-179 but for the dataset: one system of section 2.
Section2Emit ==
    /\ pc = "s2"
    /\ LET system == Systems[idx]
       IN  /\ all_scores' = CombinedScores(system)
           /\ out' = out
                     \o (IF idx = 1 THEN <<Header(2)>> ELSE <<>>)
                     \o <<Entry(2, "dist", system,
                                DistReport(CombinedScores(system)))>>
    /\ IF idx = Len(Systems)
       THEN pc' = "s3" /\ idx' = 1
       ELSE pc' = pc /\ idx' = idx + 1
    /\ UNCHANGED <<err, arg, ret>>

\* Section 2 with all_scores bound to the system's Spanish->Greek dict
\* instead of a new one, so that the additions land in the table.
Section2StepShared ==
    /\ Section2Emit
    /\ spanish_greek_scores' =
           [spanish_greek_scores EXCEPT ![Systems[idx]] = all_scores']
    /\ UNCHANGED <<greek_spanish_scores, bias_errors, total_sentences>>

\* Lines 149-179: one system of section 2.
Section2Step ==
    /\ Section2Emit
    /\ UNCHANGED dataset

\* bias_errors['Combined'][system] / total_sentences['combined']
CombinedRate(system) ==
    PyDivide(Fin(bias_errors["Combined"][system], 1),
             Fin(total_sentences.combined, 1))

\* Lines 182-210: the combined rates and the effect sizes.
Section3 ==
    /\ pc = "s3"
    /\ IF ZeroDivision(Fin(total_sentences.combined, 1))
       THEN /\ out' = out \o <<Header(3)>>
            /\ pc' = "raised"
            /\ err' = "ZeroDivisionError"
       ELSE LET google_rate == CombinedRate("Google")
                deepl_c_rate == CombinedRate("DeepL Classic")
                deepl_ng_rate == CombinedRate("DeepL Next Gen")
            IN  /\ out' = out
                     \o <<Header(3),
                          Entry(3, "rates", "Combined",
                                [i \in DOMAIN BiasSystems |->
                                    [system |-> BiasSystems[i],
                                     errors |->
                                        bias_errors["Combined"][BiasSystems[i]],
                                     total |-> total_sentences.combined,
                                     rate |-> CombinedRate(BiasSystems[i])]]),
                          Entry(3, "effects", "",
                                <<cohens_h(google_rate, deepl_ng_rate),
                                  cohens_h(deepl_c_rate, deepl_ng_rate),
                                  cohens_h(google_rate, deepl_c_rate)>>),
                          Entry(3, "interpretation", "", None)>>
                /\ pc' = "s4"
                /\ err' = err
    /\ UNCHANGED <<dataset, idx, all_scores, arg, ret>>

\* Lines 213-220: the reduction factors.
Section4 ==
    /\ pc = "s4"
    /\ LET google_rate == CombinedRate("Google")
           deepl_c_rate == CombinedRate("DeepL Classic")
           deepl_ng_rate == CombinedRate("DeepL Next Gen")
       IN  IF ZeroDivision(deepl_ng_rate)
           THEN /\ out' = out \o <<Header(4)>>
                /\ pc' = "raised"
                /\ err' = "ZeroDivisionError"
           ELSE /\ out' = out
                     \o <<Header(4),
                          Entry(4, "reduction", "",
                                <<PyDivide(google_rate, deepl_ng_rate),
                                  PyDivide(deepl_c_rate, deepl_ng_rate)>>)>>
                /\ pc' = "s5"
                /\ err' = err
    /\ idx' = 1
    /\ UNCHANGED <<dataset, all_scores, arg, ret>>

\* Lines 223-237: the error counts of one direction, and after the last
\* one the closing banner.
Section5Step ==
    /\ pc = "s5"
    /\ LET direction == BiasDirections[idx]
           total == IF direction # "Combined"
                    THEN total_sentences.per_direction
                    ELSE total_sentences.combined
           head == (IF idx = 1 THEN <<Header(5)>> ELSE <<>>)
                   \o <<Entry(5, "direction", direction, total)>>
       IN  IF ZeroDivision(Fin(total, 1))
           THEN /\ out' = out \o head
                /\ pc' = "raised"
                /\ err' = "ZeroDivisionError"
                /\ idx' = idx
           ELSE /\ out' = out \o head
                     \o <<Entry(5, "errors", direction,
                                [i \in DOMAIN BiasSystems |->
                                    [system |-> BiasSystems[i],
                                     errors |->
                                        bias_errors[direction][BiasSystems[i]],
                                     total |-> total,
                                     rate |->
                                        PyDivide(
                                          Fin(bias_errors[direction]
                                                         [BiasSystems[i]], 1),
                                          Fin(total, 1))]])>>
                     \o (IF idx = Len(BiasDirections)
                         THEN <<Entry(0, "footer", "", None)>>
                         ELSE <<>>)
                /\ err' = err
                /\ IF idx = Len(BiasDirections)
                   THEN pc' = "done" /\ idx' = idx
                   ELSE pc' = pc /\ idx' = idx + 1
    /\ UNCHANGED <<dataset, all_scores, arg, ret>>

\* main() has not started: nothing is printed, no call is under test.
InitMain ==
    /\ pc = "start"
    /\ idx = 1
    /\ all_scores = <<>>
    /\ out = <<>>
    /\ err = "none"
    /\ arg = None
    /\ ret = None

\* The program on its bias table, on cuts of its scaled score tables.
Init ==
    /\ spanish_greek_scores \in ScoreTables(SpanishGreekSource)
    /\ greek_spanish_scores \in ScoreTables(GreekSpanishSource)
    /\ bias_errors = BiasErrorsSource
    /\ total_sentences = TotalSentencesSource
    /\ InitMain

Next ==
    \/ Start
    \/ Section1Step
    \/ Section2Step
    \/ Section3
    \/ Section4
    \/ Section5Step

Spec == Init /\ [][Next]_vars

----------------------------------------------------------------------------
\* The program on bias tables drawn as inputs.

BiasSystemSet == {BiasSystems[i] : i \in DOMAIN BiasSystems}

\* The bias tables of a given number of trials per direction: any error
\* count up to the trials in each direction, their sum in 'Combined'.
BiasTables(trials) ==
    {"Spanish->Greek" :> sg @@ "Greek->Spanish" :> gs
        @@ "Combined" :> [s \in BiasSystemSet |-> sg[s] + gs[s]] :
     sg \in [BiasSystemSet -> 0..trials], gs \in [BiasSystemSet -> 0..trials]}

InitBias ==
    /\ spanish_greek_scores =
           [s \in DOMAIN SpanishGreekSource |-> Scaled(SpanishGreekSource[s])]
    /\ greek_spanish_scores =
           [s \in DOMAIN GreekSpanishSource |-> Scaled(GreekSpanishSource[s])]
    /\ \E trials \in 1..MaxTrials :
           /\ total_sentences =
                  [per_direction |-> trials, combined |-> 2 * trials]
           /\ bias_errors \in BiasTables(trials)
    /\ InitMain

SpecBias == InitBias /\ [][Next]_vars

----------------------------------------------------------------------------
\* A call of softmax.

CallLangs == {SpanishGreekSource["Google Translate"][i].lang : i \in 1..MaxLen}

\* The dicts of at most MaxLen entries with scores in 0..MaxCount.
ScoreDicts ==
    {dict \in UNION {[1..n -> [lang : CallLangs, score : 0..MaxCount]] :
                        n \in 0..MaxLen} :
        \A i, j \in DOMAIN dict : dict[i].lang = dict[j].lang => i = j}

\* 1.0 (the default), 2.0, 0.001, 0.0 and -1.0.
Temperatures == {Fin(1, 1), Fin(2, 1), Fin(1, 1000), Fin(0, 1), Fin(-1, 1)}

\* No run of main(): the tables are the scaled tables of the source.
InitCall ==
    /\ spanish_greek_scores =
           [s \in DOMAIN SpanishGreekSource |-> Scaled(SpanishGreekSource[s])]
    /\ greek_spanish_scores =
           [s \in DOMAIN GreekSpanishSource |-> Scaled(GreekSpanishSource[s])]
    /\ bias_errors = BiasErrorsSource
    /\ total_sentences = TotalSentencesSource
    /\ pc = "call"
    /\ idx = 1
    /\ all_scores = <<>>
    /\ out = <<>>
    /\ err = "none"
    /\ ret = None

InitSoftmax ==
    /\ InitCall
    /\ arg \in [scores_dict : ScoreDicts, temperature : Temperatures]

\* softmax(scores_dict, temperature) runs to its return statement.
CallSoftmax ==
    /\ pc = "call"
    /\ ret' = softmax(arg.scores_dict, arg.temperature)
    /\ pc' = "returned"
    /\ UNCHANGED <<dataset, idx, all_scores, out, err, arg>>

SpecSoftmax == InitSoftmax /\ [][CallSoftmax]_vars

----------------------------------------------------------------------------
\* A call of cohens_h.

Proportions == {Norm(n, PDen) : n \in (-POver)..(PDen + POver)}

InitCohensH ==
    /\ InitCall
    /\ arg \in [p1 : Proportions, p2 : Proportions]

\* cohens_h(p1, p2) runs to its return statement.
CallCohensH ==
    /\ pc = "call"
    /\ ret' = cohens_h(arg.p1, arg.p2)
    /\ pc' = "returned"
    /\ UNCHANGED <<dataset, idx, all_scores, out, err, arg>>

SpecCohensH == InitCohensH /\ [][CallCohensH]_vars

----------------------------------------------------------------------------
\* Properties.

\* The count a dict of scores holds for a language, 0 when it holds none.
CountIn(dict, lang) ==
    LET at == {i \in DOMAIN dict : dict[i].lang = lang}
    IN  IF at = {} THEN 0 ELSE dict[CHOOSE i \in at : TRUE].score

\* The system whose scores all_scores holds: the last one section 2 did.
LastCombined ==
    IF pc = "s2" THEN idx - 1
    ELSE IF pc \in {"s3", "s4", "s5", "done", "raised"} THEN Len(Systems)
    ELSE 0

CombinedRecords ==
    {k \in DOMAIN out :
        out[k].kind \in {"rates", "errors"} /\ out[k].key = "Combined"}

\* C2: every combined record the report shows has as errors the sum of the
\* system's errors of the two directions and as denominator twice the
\* denominator of a direction.
C2_CombinedRecordIsSum ==
    \A k \in CombinedRecords :
        \A i \in DOMAIN out[k].val :
            LET r == out[k].val[i]
            IN  /\ r.errors = bias_errors["Spanish->Greek"][r.system]
                              + bias_errors["Greek->Spanish"][r.system]
                /\ r.total = total_sentences.per_direction
                             + total_sentences.per_direction

\* The report is complete and showed the records 45/56 + 40/56 = 85/112 of
\* section 3 and of section 5.
C2_Witness ==
    /\ pc = "done"
    /\ \E k \in CombinedRecords : out[k].sec = 3
    /\ \E k \in CombinedRecords : out[k].sec = 5
    /\ \A k \in CombinedRecords :
           /\ out[k].val[1].system = "Google"
           /\ out[k].val[1].errors = 85
           /\ out[k].val[1].total = 112

\* The printed distributions, and the dict of scores each was made from.
DistEntries == {k \in DOMAIN out : out[k].kind = "dist"}

DistScores(k) ==
    IF out[k].sec = 1
    THEN IF out[k].key[1] = ScoreDirections[1]
         THEN spanish_greek_scores[out[k].key[2]]
         ELSE greek_spanish_scores[out[k].key[2]]
    ELSE CombinedScores(out[k].key)

\* In the dict probs, entry i ranks before entry j: its probability is
\* greater, or equal with i earlier in the dict.
RanksBefore(probs, i, j) ==
    \/ FloatLess(probs[j].prob, probs[i].prob)
    \/ FloatEq(probs[i].prob, probs[j].prob) /\ i < j

\* top lists the first five entries (all when there are fewer) of the
\* ranking of probs.
IsTopFive(top, probs) ==
    /\ Len(top) = Min(5, Len(probs))
    /\ \A m \in DOMAIN top :
           /\ HasKey(probs, top[m].lang)
           /\ top[m] = probs[IndexOf(probs, top[m].lang)]
    /\ \A m, n \in DOMAIN top :
           m < n => RanksBefore(probs, IndexOf(probs, top[m].lang),
                                IndexOf(probs, top[n].lang))
    /\ \A j \in DOMAIN probs :
           (\A m \in DOMAIN top : top[m].lang # probs[j].lang) =>
               \A m \in DOMAIN top :
                   RanksBefore(probs, IndexOf(probs, top[m].lang), j)

\* C3: every printed distribution, per direction or combined, lists the
\* languages by descending softmax probability, equal ones in the order of
\* the dict, cut to the first five, and shows the probability of English
\* exactly when English is a key of the dict.
C3_TopFiveAndEnglish ==
    \A k \in DistEntries :
        LET scores == DistScores(k)
            probs == softmax(scores, DefaultTemperature)
        IN  /\ IsTopFive(out[k].val.top, probs)
            /\ IF "English" \in Keys(scores)
               THEN out[k].val.english =
                        <<probs[IndexOf(probs, "English")].prob>>
               ELSE out[k].val.english = <<>>

\* A printed distribution of more than five languages whose fifth ties
\* with one left out, one that shows English though English is not among
\* the five, and one without English.
C3_Witness ==
    /\ \E k \in DistEntries :
           LET probs == softmax(DistScores(k), DefaultTemperature)
               top == out[k].val.top
           IN  /\ Len(probs) > 5
               /\ \E j \in DOMAIN probs :
                      /\ \A m \in DOMAIN top : top[m].lang # probs[j].lang
                      /\ FloatEq(probs[j].prob, top[5].prob)
    /\ \E k \in DistEntries :
           /\ out[k].val.english # <<>>
           /\ \A m \in DOMAIN out[k].val.top : out[k].val.top[m].lang # "English"
    /\ \E k \in DistEntries : out[k].val.english = <<>>

\* What softmax returned, as the sequence of its values.
ReturnedProbs == [i \in DOMAIN ret |-> ret[i].prob]

\* C4: for a non-empty dict and a temperature above 0, softmax returns the
\* keys of the dict, values in [0, 1], and values that sum to 1 within 1e-9.
C4_SoftmaxIsDistribution ==
    (/\ pc = "returned"
     /\ arg.scores_dict # <<>>
     /\ FloatLess(Zero, arg.temperature)) =>
        /\ Keys(ret) = Keys(arg.scores_dict)
        /\ Len(ret) = Len(arg.scores_dict)
        /\ \A i \in DOMAIN ret :
               /\ IsFin(ret[i].prob)
               /\ 0 <= ret[i].prob.n
               /\ ret[i].prob.n <= ret[i].prob.d
        /\ IsFin(NpSum(ReturnedProbs))
        /\ Abs(NpSum(ReturnedProbs).n - NpSum(ReturnedProbs).d)
               <= NpSum(ReturnedProbs).d \div 1000000000

\* C5: cohens_h(0, 1) is -pi and cohens_h(1, 0) is pi.
C5_Endpoints ==
    pc = "returned" =>
        /\ (arg.p1 = Fin(0, 1) /\ arg.p2 = Fin(1, 1)) => ret = Fin(-Pi, 1)
        /\ (arg.p1 = Fin(1, 1) /\ arg.p2 = Fin(0, 1)) => ret = Fin(Pi, 1)

\* cohens_h(0, 1) has returned.
C5_Witness == pc = "returned" /\ arg.p1 = Fin(0, 1) /\ arg.p2 = Fin(1, 1)

\* C5 as claimed: cohens_h(0, 1) is pi and cohens_h(1, 0) is -pi.
C5_EndpointsAsClaimed ==
    pc = "returned" =>
        /\ (arg.p1 = Fin(0, 1) /\ arg.p2 = Fin(1, 1)) => ret = Fin(Pi, 1)
        /\ (arg.p1 = Fin(1, 1) /\ arg.p2 = Fin(0, 1)) => ret = Fin(-Pi, 1)

\* The sections of which something has been printed.
SectionsPrinted == {out[k].sec : k \in DOMAIN out} \ {0}

\* C6: when main() has ended, by returning or by an exception, it has
\* printed all five sections or nothing of any section.
C6_NoPartialReport ==
    pc \in {"done", "raised"} => SectionsPrinted \in {{}, 1..5}

\* C7: softmax raises InvalidInput and returns nothing when the dict is
\* empty or the temperature is 0 or less.
C7_SoftmaxRejectsInvalid ==
    (/\ pc = "returned"
     /\ \/ arg.scores_dict = <<>>
        \/ ~FloatLess(Zero, arg.temperature)) =>
        err = "InvalidInput" /\ ret = None

\* p is below 0 or above 1.
OutsideUnit(p) == p.n < 0 \/ p.n > p.d

\* C8: cohens_h raises InvalidInput and returns nothing when p1 or p2 is
\* outside [0, 1].
C8_CohensHRejectsInvalid ==
    (/\ pc = "returned"
     /\ OutsideUnit(arg.p1) \/ OutsideUnit(arg.p2)) =>
        err = "InvalidInput" /\ ret = None

\* The header of section 4 has been printed: main() has reached, and
\* with the next statement done, the reduction factors.
ReachedReduction == \E k \in DOMAIN out : out[k] = Header(4)

ReductionEntries == {k \in DOMAIN out : out[k].kind = "reduction"}

\* C9: a reduction factor the report shows is finite and is the baseline
\* system's combined rate over that of DeepL Next Gen; and when that rate
\* is 0, main() ends at the reduction factors with ZeroDivisionError and
\* shows none.
C9_ReductionFactor ==
    LET improved == bias_errors["Combined"]["DeepL Next Gen"]
        total == total_sentences.combined
    IN  /\ \A k \in ReductionEntries :
               \A i \in {1, 2} :
                   LET r == out[k].val[i]
                       baseline == bias_errors["Combined"][BiasSystems[i]]
                   IN  /\ IsFin(r)
                       /\ improved # 0
                       /\ r.n * (improved * total) = r.d * (baseline * total)
        /\ (ReachedReduction /\ improved = 0) =>
               /\ pc = "raised"
               /\ err = "ZeroDivisionError"
               /\ ReductionEntries = {}

\* main() has reached the reduction factors with a rate of 0 for DeepL
\* Next Gen and a rate above 0 for Google.
C9_Witness ==
    /\ ReachedReduction
    /\ bias_errors["Combined"]["DeepL Next Gen"] = 0
    /\ bias_errors["Combined"]["Google"] > 0

\* C10: no step of main(), the calls of softmax and the accumulation of
\* the combined scores included, changes the score tables, bias_errors or
\* total_sentences.
C10_DatasetUnchanged == [][dataset' = dataset]_vars

\* main() has returned, and the combined scores it accumulated last are
\* not the scores of either direction.
C10_Witness ==
    /\ pc = "done"
    /\ all_scores # spanish_greek_scores[Systems[Len(Systems)]]
    /\ all_scores # greek_spanish_scores[Systems[Len(Systems)]]
    /\ all_scores # <<>>

====
